---- MODULE Spec2Model ----
(***************************************************************************)
(* Model of the model-selection strategies (my_model_selectors.py) and of  *)
(* the recognition loop (my_recognizer.py).                                *)
(*                                                                         *)
(* The external fitting primitive (GaussianHMM.fit / .score) is modelled   *)
(* by its outcome: a fit succeeds or fails, a score call yields a          *)
(* log-likelihood or fails.  A fit is deterministic in (X, n, seed), so    *)
(* its outcome is remembered in fitMemo and a second fit of the same data  *)
(* with the same state count answers the same.  Real numbers are integers  *)
(* in thousandths; quotients are kept as exact fractions.                  *)
(***************************************************************************)
EXTENDS Integers, Sequences, FiniteSets, TLC

VARIABLES
    run,                \* which entry point runs: a selector class or "recognize"
    sequences,          \* self.sequences: frame count of each training sequence of this word
    numWords,           \* len(self.words)
    max_n_components,   \* self.max_n_components
    X,                  \* self.X: the sequence indices whose frames are concatenated
    lengths,            \* self.lengths
    pc,                 \* position in select() / recognize()
    n_components,       \* loop variable of select()
    model_list,         \* dict hmm_model -> score, in insertion order
    hmm_model,          \* local hmm_model of SelectorCV.select
    average_test_score, \* local average_test_score of SelectorCV.select
    fold,               \* number of folds of the current n already evaluated
    result,             \* value returned by select()
    path,               \* which return statement produced result
    fitMemo,            \* outcomes of the fits performed so far
    drawn,              \* answers of the primitive for the candidate evaluated last
    models,             \* recognize(): the word -> model mapping, in iteration order
    test_set_size,      \* recognize(): len(test_set.get_all_Xlengths())
    word_id,            \* recognize(): loop variable
    probabilities,      \* recognize(): list of score dicts
    guesses             \* recognize(): list of guessed words

vars == <<run, sequences, numWords, max_n_components, X, lengths, pc,
          n_components, model_list, hmm_model, average_test_score, fold,
          result, path, fitMemo, drawn, models, test_set_size, word_id,
          probabilities, guesses>>

selVars == <<sequences, numWords, max_n_components, X, lengths,
             n_components, model_list, hmm_model, average_test_score, fold,
             result, path, fitMemo>>

recVars == <<models, test_set_size, word_id, probabilities, guesses>>

----------------------------------------------------------------------------
(* Bounds of the model *)

MaxSeq == 4
MaxFrames == 2
MaxWords == 3
MaxN == 4
MaxVocab == 2
MaxItems == 2

(* Program constants *)

N_CONSTANT == 3
MIN_N_COMPONENTS == 2
N_SPLITS == 3
THIS_WORD == 1
NegInf == -1000000

Selectors == {"Constant", "BIC", "DIC", "CV"}

(* log-likelihoods the primitive may answer, in thousandths *)
Scores == {-2000, -1000}

FailOutcome == [ok |-> FALSE, val |-> 0]
Outcomes == {FailOutcome} \cup {[ok |-> TRUE, val |-> s] : s \in Scores}

----------------------------------------------------------------------------
(* Python values held in hmm_model *)

NoneObj == [kind |-> "None", n |-> 0, X |-> <<>>]
IntObj(k) == [kind |-> "int", n |-> k, X |-> <<>>]
Model(n, x) == [kind |-> "model", n |-> n, X |-> x]

(* exact fractions *)
Rat(n, d) == [num |-> n, den |-> d]
RatLT(a, b) == a.num * b.den < b.num * a.den
RatEq(a, b) == a.num * b.den = b.num * a.den
RatSub(a, b) == [num |-> a.num * b.den - b.num * a.den, den |-> a.den * b.den]

RECURSIVE SumSeq(_)
SumSeq(s) == IF s = <<>> THEN 0 ELSE Head(s) + SumSeq(Tail(s))

(* np.log, in thousandths, for 1..20 data points *)
LnTable == <<0, 693, 1099, 1386, 1609, 1792, 1946, 2079, 2197, 2303,
             2398, 2485, 2565, 2639, 2708, 2773, 2833, 2890, 2944, 2996>>
np_log(N) == LnTable[N]

FullX == [i \in 1..Len(sequences) |-> i]

----------------------------------------------------------------------------
(* The fitting primitive *)

MemoOutcomes(memo, x, n) ==
    IF \E e \in memo : e.X = x /\ e.n = n
    THEN {e.ok : e \in {m \in memo : m.X = x /\ m.n = n}}
    ELSE BOOLEAN

(* hmm_model.score(...): AttributeError on None or on an int *)
ScoreCall(obj, outcome) ==
    IF obj.kind = "model" THEN outcome ELSE FailOutcome

(* ModelSelector.base_model: the fitted model, or None when the fit raises *)
base_model(selfX, num_states, ok) ==
    IF ok THEN Model(num_states, selfX) ELSE NoneObj

InRange_mut(n) == n >= MIN_N_COMPONENTS /\ n <= max_n_components + 1

(* the loop condition of the three searching selectors *)
InRange(n) == n >= MIN_N_COMPONENTS /\ n <= max_n_components

(* max(model_list, key=...): the first key whose value is maximal *)
MaxModel(ml) ==
    LET i == CHOOSE i \in 1..Len(ml) :
                /\ \A j \in 1..Len(ml) : ~RatLT(ml[i].score, ml[j].score)
                /\ \A j \in 1..(i - 1) : RatLT(ml[j].score, ml[i].score)
    IN ml[i].model

----------------------------------------------------------------------------
(* SelectorBIC.scoreBIC *)
scoreBIC(logLike, number_of_parameters, number_of_data_points) ==
    (-2 * logLike) + (number_of_parameters * np_log(number_of_data_points))

(* SelectorDIC.calculate_avgscore_otherwords: the loop over self.words.    *)
(* others[w] is what a fitted model's score answers for word w.            *)
RECURSIVE AvgLoop(_, _, _, _, _, _)
AvgLoop(ws, except_this_word, model, others, average_score, num_words) ==
    IF ws = <<>> THEN <<average_score, num_words>>
    ELSE LET word == Head(ws) IN
         IF word = except_this_word
         THEN AvgLoop(Tail(ws), except_this_word, model, others,
                      average_score, num_words)
         ELSE LET score == ScoreCall(model, others[word]) IN
              IF score.ok
              THEN AvgLoop(Tail(ws), except_this_word, model, others,
                           average_score + score.val, num_words)
              ELSE AvgLoop(Tail(ws), except_this_word, model, others,
                           average_score, num_words - 1)

calculate_avgscore_otherwords(words, except_this_word, model, others) ==
    LET r == AvgLoop(words, except_this_word, model, others, 0, Len(words) - 1)
    IN IF r[2] > 0 THEN Rat(r[1], r[2]) ELSE Rat(0, 1)

(* the argument SelectorDIC.select hands to calculate_avgscore_otherwords *)
DICScoredObject(fitted, n) == IntObj(n)

(* sklearn KFold(n_splits=N_SPLITS).split: contiguous test blocks, the     *)
(* first n_samples % n_splits of them one longer; ValueError when there    *)
(* are fewer samples than splits                                           *)
KFoldRaises(n_samples) == N_SPLITS > n_samples

FoldSize(n_samples, f) ==
    (n_samples \div N_SPLITS) + (IF f <= n_samples % N_SPLITS THEN 1 ELSE 0)

FoldStart(n_samples, f) ==
    1 + (f - 1) * (n_samples \div N_SPLITS)
      + (IF f - 1 <= n_samples % N_SPLITS THEN f - 1 ELSE n_samples % N_SPLITS)

cv_test_idx(n_samples, f) ==
    [i \in 1..FoldSize(n_samples, f) |-> FoldStart(n_samples, f) + i - 1]

cv_train_idx(n_samples, f) ==
    LET lo == FoldStart(n_samples, f)
        hi == lo + FoldSize(n_samples, f) - 1
    IN SelectSeq([i \in 1..n_samples |-> i], LAMBDA i : i < lo \/ i > hi)

(* asl_utils.combine_sequences: (X, lengths) of the chosen sequences *)
combine_sequences(split_index_list, seqs) ==
    [X |-> split_index_list,
     lengths |-> [i \in 1..Len(split_index_list) |-> seqs[split_index_list[i]]]]

AccumulateFold_mut(average, test_score) == Rat(test_score, 1)

(* SelectorCV.select: average_test_score + test_score, and the division   *)
(* by N_SPLITS after the last fold                                         *)
AccumulateFold(average, test_score) ==
    Rat(average.num + test_score * average.den, average.den)

AverageFolds(total) == Rat(total.num, total.den * N_SPLITS)

FallbackStates_mut(n) == n

(* the state count of every fallback fit *)
FallbackStates(n) == N_CONSTANT

----------------------------------------------------------------------------
(* ModelSelector.__init__ for one word of a corpus *)

NoDraw == [n |-> 0, own |-> FailOutcome, others |-> <<>>, folds |-> <<>>]

InitSelect ==
    /\ run \in Selectors
    /\ sequences \in {[i \in 1..k |-> f] : k \in 1..MaxSeq, f \in 1..MaxFrames}
    /\ numWords \in 1..MaxWords
    /\ max_n_components \in MIN_N_COMPONENTS..MaxN
    /\ X = FullX
    /\ lengths = sequences
    /\ pc = "start"
    /\ n_components = 0
    /\ model_list = <<>>
    /\ hmm_model = NoneObj
    /\ average_test_score = Rat(0, 1)
    /\ fold = 0
    /\ result = NoneObj
    /\ path = "none"
    /\ fitMemo = {}
    /\ drawn = NoDraw
    /\ models = <<>>
    /\ test_set_size = 0
    /\ word_id = 0
    /\ probabilities = <<>>
    /\ guesses = <<>>

(* SelectorConstant.select *)
SelectorConstant_select ==
    /\ run = "Constant" /\ pc = "start"
    /\ \E ok \in MemoOutcomes(fitMemo, X, N_CONSTANT) :
         /\ result' = base_model(X, N_CONSTANT, ok)
         /\ fitMemo' = fitMemo \cup {[X |-> X, n |-> N_CONSTANT, ok |-> ok]}
    /\ path' = "fallback"
    /\ pc' = "done"
    /\ UNCHANGED <<run, sequences, numWords, max_n_components, X, lengths,
                   n_components, model_list, hmm_model, average_test_score,
                   fold, drawn>>
    /\ UNCHANGED recVars

(* the statements of BIC/DIC/CV select() before the while loop *)
Select_begin ==
    /\ run \in {"BIC", "DIC", "CV"} /\ pc = "start"
    /\ model_list' = <<>>
    /\ n_components' = MIN_N_COMPONENTS
    /\ pc' = "loop"
    /\ UNCHANGED <<run, sequences, numWords, max_n_components, X, lengths,
                   hmm_model, average_test_score, fold, result, path,
                   fitMemo, drawn>>
    /\ UNCHANGED recVars

(* SelectorBIC.select: one iteration of the while loop *)
SelectorBIC_iter ==
    /\ run = "BIC" /\ pc = "loop" /\ InRange(n_components)
    /\ \E ok \in MemoOutcomes(fitMemo, X, n_components) :
       \E own \in (IF ok THEN Outcomes ELSE {FailOutcome}) :
         LET fitted == base_model(X, n_components, ok)
             test_score == ScoreCall(fitted, own)
             bic == scoreBIC(test_score.val, n_components, SumSeq(lengths))
         IN /\ model_list' = IF test_score.ok
                             THEN Append(model_list,
                                         [model |-> fitted, score |-> Rat(bic, 1)])
                             ELSE model_list
            /\ fitMemo' = fitMemo \cup {[X |-> X, n |-> n_components, ok |-> ok]}
            /\ drawn' = [n |-> n_components, own |-> test_score,
                         others |-> <<>>, folds |-> <<>>]
    /\ n_components' = n_components + 1
    /\ UNCHANGED <<run, sequences, numWords, max_n_components, X, lengths, pc,
                   hmm_model, average_test_score, fold, result, path>>
    /\ UNCHANGED recVars

(* SelectorDIC.select: one iteration of the while loop *)
SelectorDIC_iter ==
    /\ run = "DIC" /\ pc = "loop" /\ InRange(n_components)
    /\ \E ok \in MemoOutcomes(fitMemo, X, n_components) :
       \E own \in (IF ok THEN Outcomes ELSE {FailOutcome}) :
       \E others \in (IF own.ok
                      THEN {o \in [1..numWords -> Outcomes] : o[THIS_WORD] = own}
                      ELSE {[w \in 1..numWords |-> FailOutcome]}) :
         LET fitted == base_model(X, n_components, ok)
             this_word_score == ScoreCall(fitted, own)
             otherwords_avgscore ==
                 calculate_avgscore_otherwords([w \in 1..numWords |-> w], THIS_WORD,
                     DICScoredObject(fitted, n_components), others)
             diff == RatSub(Rat(this_word_score.val, 1), otherwords_avgscore)
         IN /\ model_list' = IF this_word_score.ok
                             THEN Append(model_list, [model |-> fitted, score |-> diff])
                             ELSE model_list
            /\ fitMemo' = fitMemo \cup {[X |-> X, n |-> n_components, ok |-> ok]}
            /\ drawn' = [n |-> n_components, own |-> this_word_score,
                         others |-> others, folds |-> <<>>]
    /\ n_components' = n_components + 1
    /\ UNCHANGED <<run, sequences, numWords, max_n_components, X, lengths, pc,
                   hmm_model, average_test_score, fold, result, path>>
    /\ UNCHANGED recVars

(* SelectorBIC.select / SelectorDIC.select after the loop *)
SelectorBICDIC_finish ==
    /\ run \in {"BIC", "DIC"} /\ pc = "loop" /\ ~InRange(n_components)
    /\ IF Len(model_list) = 0
       THEN \E ok \in MemoOutcomes(fitMemo, X, FallbackStates(n_components)) :
              /\ result' = base_model(X, FallbackStates(n_components), ok)
              /\ fitMemo' = fitMemo \cup
                     {[X |-> X, n |-> FallbackStates(n_components), ok |-> ok]}
              /\ path' = "fallback"
       ELSE /\ result' = MaxModel(model_list)
            /\ path' = "best"
            /\ UNCHANGED fitMemo
    /\ pc' = "done"
    /\ UNCHANGED <<run, sequences, numWords, max_n_components, X, lengths,
                   n_components, model_list, hmm_model, average_test_score,
                   fold, drawn>>
    /\ UNCHANGED recVars

(* SelectorCV.select: one pass of the for loop over the folds, with the     *)
(* statements of the while loop around it (the reset before the first      *)
(* fold, the average and the record after the last one) and the except     *)
(* handler that any exception of the pass reaches                          *)
SelectorCV_fold ==
    /\ run = "CV" /\ pc = "loop" /\ InRange(n_components)
    /\ IF KFoldRaises(Len(sequences))
       THEN \E ok2 \in MemoOutcomes(fitMemo, X, FallbackStates(n_components)) :
              /\ result' = base_model(X, FallbackStates(n_components), ok2)
              /\ hmm_model' = result'
              /\ fitMemo' = fitMemo \cup
                     {[X |-> X, n |-> FallbackStates(n_components), ok |-> ok2]}
              /\ average_test_score' = Rat(0, 1)
              /\ path' = "fallback"
              /\ pc' = "done"
              /\ UNCHANGED <<X, lengths, n_components, model_list, fold, drawn>>
       ELSE \E ok \in MemoOutcomes(fitMemo,
                          cv_train_idx(Len(sequences), fold + 1), n_components) :
            \E s \in (IF ok THEN Outcomes ELSE {FailOutcome}) :
              LET f == fold + 1
                  train == combine_sequences(cv_train_idx(Len(sequences), f), sequences)
                  fitted == base_model(train.X, n_components, ok)
                  test == combine_sequences(cv_test_idx(Len(sequences), f), sequences)
                  test_score == ScoreCall(fitted, s)
                  memo1 == fitMemo \cup {[X |-> train.X, n |-> n_components, ok |-> ok]}
                  average0 == IF fold = 0 THEN Rat(0, 1) ELSE average_test_score
                  total == AccumulateFold(average0, test_score.val)
                  folds1 == Append(IF fold = 0 THEN <<>> ELSE drawn.folds,
                                   [test |-> test.X, out |-> test_score])
              IN /\ X' = train.X
                 /\ lengths' = train.lengths
                 /\ drawn' = [n |-> n_components, own |-> FailOutcome,
                              others |-> <<>>, folds |-> folds1]
                 /\ IF ~test_score.ok
                    THEN \E ok2 \in MemoOutcomes(memo1, train.X,
                                                 FallbackStates(n_components)) :
                           /\ result' = base_model(train.X,
                                                   FallbackStates(n_components), ok2)
                           /\ hmm_model' = result'
                           /\ fitMemo' = memo1 \cup
                                  {[X |-> train.X, n |-> FallbackStates(n_components),
                                    ok |-> ok2]}
                           /\ average_test_score' = average0
                           /\ path' = "fallback"
                           /\ pc' = "done"
                           /\ UNCHANGED <<n_components, model_list, fold>>
                    ELSE /\ hmm_model' = fitted
                         /\ fitMemo' = memo1
                         /\ UNCHANGED <<result, path, pc>>
                         /\ IF f = N_SPLITS
                            THEN /\ average_test_score' = AverageFolds(total)
                                 /\ model_list' = Append(model_list,
                                        [model |-> fitted, score |-> AverageFolds(total)])
                                 /\ n_components' = n_components + 1
                                 /\ fold' = 0
                            ELSE /\ average_test_score' = total
                                 /\ fold' = f
                                 /\ UNCHANGED <<n_components, model_list>>
    /\ UNCHANGED <<run, sequences, numWords, max_n_components>>
    /\ UNCHANGED recVars

(* SelectorCV.select after the loop: max() raises ValueError on an empty dict *)
SelectorCV_finish ==
    /\ run = "CV" /\ pc = "loop" /\ ~InRange(n_components)
    /\ IF Len(model_list) = 0
       THEN pc' = "raised" /\ UNCHANGED <<result, path>>
       ELSE /\ result' = MaxModel(model_list)
            /\ path' = "best"
            /\ pc' = "done"
    /\ UNCHANGED <<run, sequences, numWords, max_n_components, X, lengths,
                   n_components, model_list, hmm_model, average_test_score,
                   fold, fitMemo, drawn>>
    /\ UNCHANGED recVars

Next ==
    \/ SelectorConstant_select
    \/ Select_begin
    \/ SelectorBIC_iter
    \/ SelectorDIC_iter
    \/ SelectorBICDIC_finish
    \/ SelectorCV_fold
    \/ SelectorCV_finish

Spec == InitSelect /\ [][Next]_vars

----------------------------------------------------------------------------
(* my_recognizer.recognize *)

(* one entry of test_word_probability_dict: the score, or float("-inf") *)
ScoreEntry(model, out) ==
    LET score == ScoreCall(model, out)
    IN IF score.ok THEN score.val ELSE NegInf

ScoreMap_mut(ms, outs) ==
    SelectSeq([i \in 1..Len(ms) |->
                  [word |-> ms[i].word, score |-> ScoreEntry(ms[i].model, outs[i])]],
              LAMBDA e : e.score # NegInf)

(* the inner loop over models.items(): the dict, in insertion order *)
ScoreMap(ms, outs) ==
    [i \in 1..Len(ms) |->
        [word |-> ms[i].word, score |-> ScoreEntry(ms[i].model, outs[i])]]

MaxWord_mut(d) ==
    LET i == CHOOSE i \in 1..Len(d) :
                /\ \A j \in 1..Len(d) : d[j].score <= d[i].score
                /\ \A j \in (i + 1)..Len(d) : d[j].score < d[i].score
    IN d[i].word

(* max(test_word_probability_dict, key=...): the first key of maximal value *)
MaxWord(d) ==
    LET i == CHOOSE i \in 1..Len(d) :
                /\ \A j \in 1..Len(d) : d[j].score <= d[i].score
                /\ \A j \in 1..(i - 1) : d[j].score < d[i].score
    IN d[i].word

Mappings ==
    UNION {{ms \in [1..v -> [word : 1..v,
                             model : {NoneObj, Model(N_CONSTANT, <<>>)}]] :
               \A i, j \in 1..v : i # j => ms[i].word # ms[j].word}
           : v \in 0..MaxVocab}

InitRecognize ==
    /\ run = "recognize"
    /\ models \in Mappings
    /\ test_set_size \in 0..MaxItems
    /\ word_id = 0
    /\ probabilities = <<>>
    /\ guesses = <<>>
    /\ pc = "loop"
    /\ sequences = <<>>
    /\ numWords = 0
    /\ max_n_components = 0
    /\ X = <<>>
    /\ lengths = <<>>
    /\ n_components = 0
    /\ model_list = <<>>
    /\ hmm_model = NoneObj
    /\ average_test_score = Rat(0, 1)
    /\ fold = 0
    /\ result = NoneObj
    /\ path = "none"
    /\ fitMemo = {}
    /\ drawn = <<>>

(* one iteration of the loop over word_id; drawn collects, per item, what  *)
(* each model's score call answered                                        *)
recognize_item ==
    /\ run = "recognize" /\ pc = "loop" /\ word_id < test_set_size
    /\ \E outs \in {o \in [1..Len(models) -> Outcomes] :
                      \A i \in 1..Len(models) :
                          models[i].model.kind # "model" => o[i] = FailOutcome} :
         LET test_word_probability_dict == ScoreMap(models, outs)
         IN /\ probabilities' = Append(probabilities, test_word_probability_dict)
            /\ drawn' = Append(drawn, outs)
            /\ IF Len(test_word_probability_dict) = 0
               THEN /\ pc' = "raised"
                    /\ UNCHANGED <<guesses, word_id>>
               ELSE /\ guesses' = Append(guesses, MaxWord(test_word_probability_dict))
                    /\ word_id' = word_id + 1
                    /\ UNCHANGED pc
    /\ UNCHANGED <<run, models, test_set_size>>
    /\ UNCHANGED selVars

(* return (probabilities, guesses) *)
recognize_return ==
    /\ run = "recognize" /\ pc = "loop" /\ word_id >= test_set_size
    /\ pc' = "done"
    /\ UNCHANGED <<run, models, test_set_size, word_id, probabilities, guesses,
                   drawn>>
    /\ UNCHANGED selVars

NextRecognize ==
    \/ recognize_item
    \/ recognize_return

SpecRecognize == InitRecognize /\ [][NextRecognize]_vars

----------------------------------------------------------------------------
(* Properties of the selectors, checked under Spec *)

Selecting == run \in Selectors
Returned == Selecting /\ pc = "done"

(* some recorded entry holds the returned model and no entry scores higher *)
ReturnsHighest ==
    \E i \in 1..Len(model_list) :
        /\ model_list[i].model = result
        /\ \A j \in 1..Len(model_list) :
              ~RatLT(model_list[i].score, model_list[j].score)

(* some recorded entry holds the returned model and no entry scores lower *)
ReturnsLowest ==
    \E i \in 1..Len(model_list) :
        /\ model_list[i].model = result
        /\ \A j \in 1..Len(model_list) :
              ~RatLT(model_list[j].score, model_list[i].score)

(* C1: whatever fits and scores fail, each of the four selectors returns a *)
(* fitted model from select(), never None, the fallback path included.     *)
C1_NeverReturnsFailure ==
    Returned => result.kind = "model"

(* C2: the BIC selector returns, among the candidates recorded in          *)
(* model_list, the one of minimum BIC: no recorded candidate has a         *)
(* strictly lower BIC than the returned model.                             *)
C2_BICReturnsMinimum ==
    (Returned /\ run = "BIC" /\ Len(model_list) > 0) => ReturnsLowest

(* the average log-likelihood a fitted model gives the other words,        *)
(* failing words left out of sum and denominator, 0 when all of them fail  *)
AverageOtherWords(others) ==
    LET scored == SelectSeq([w \in 1..numWords |-> w],
                            LAMBDA w : w # THIS_WORD /\ others[w].ok)
        vals == [i \in 1..Len(scored) |-> others[scored[i]].val]
    IN IF Len(scored) = 0 THEN Rat(0, 1) ELSE Rat(SumSeq(vals), Len(scored))

(* C3: for a candidate whose fit and own-word score succeed, the DIC       *)
(* selector records own log-likelihood minus the average log-likelihood    *)
(* the same fitted model gives every other word (failing words left out,   *)
(* 0 when all fail), and select() returns a recorded model of maximum      *)
(* score.                                                                  *)
C3_DICScore ==
    /\ (run = "DIC" /\ drawn.n > 0 /\ drawn.own.ok) =>
          /\ Len(model_list) > 0
          /\ model_list[Len(model_list)].model = Model(drawn.n, FullX)
          /\ RatEq(model_list[Len(model_list)].score,
                   RatSub(Rat(drawn.own.val, 1), AverageOtherWords(drawn.others)))
    /\ (Returned /\ run = "DIC" /\ Len(model_list) > 0) => ReturnsHighest

(* C4: in the BIC, DIC and CrossValidated selectors a failing candidate is *)
(* only skipped: the loop evaluates every n of the range, and whenever a   *)
(* candidate was recorded the result is the best recorded candidate, not   *)
(* the fallback.  (A word too short to be partitioned is the               *)
(* CrossValidated selector's whole-selector fallback and is left out.)     *)
C4_FailureIsolation ==
    (Returned /\ run \in {"BIC", "DIC", "CV"}
       /\ (run = "CV" => ~KFoldRaises(Len(sequences)))) =>
        /\ n_components = max_n_components + 1
        /\ Len(model_list) > 0 =>
              /\ path = "best"
              /\ \E i \in 1..Len(model_list) : model_list[i].model = result

(* what SelectorConstant.select returns for this word: the fit of          *)
(* N_CONSTANT states on the full data, None when that fit fails            *)
ConstantResult ==
    IF [X |-> FullX, n |-> N_CONSTANT, ok |-> TRUE] \in fitMemo
    THEN Model(N_CONSTANT, FullX)
    ELSE NoneObj

(* C5: with fewer than 3 training sequences the CrossValidated selector    *)
(* returns exactly the Constant selector's result for the word and has     *)
(* recorded no cross-validation candidate.                                 *)
C5_CVFewSequences ==
    (run = "CV" /\ Len(sequences) < N_SPLITS) =>
        /\ pc # "raised"
        /\ model_list = <<>>
        /\ pc = "done" => (result = ConstantResult /\ path = "fallback")

C5_Witness ==
    /\ run = "CV" /\ pc = "done" /\ Len(sequences) = N_SPLITS - 1
    /\ result = Model(N_CONSTANT, FullX)

(* C6: a model returned by any selector has a state count inside           *)
(* [min_n_components, max_n_components] or equal to the fallback constant. *)
C6_StateCountInRange ==
    (Returned /\ result.kind = "model") =>
        \/ result.n \in MIN_N_COMPONENTS..max_n_components
        \/ result.n = N_CONSTANT

C6_Witness ==
    /\ Returned /\ path = "best" /\ result.kind = "model"
    /\ result.n # N_CONSTANT
    /\ result.n = max_n_components

(* C9: with at least 3 sequences and no failing fold, the CrossValidated   *)
(* selector records one entry per n, in order; the entry holds the model   *)
(* fit on the last fold's training partition and the sum of the 3 held-out *)
(* log-likelihoods divided by 3; select() returns a recorded model of      *)
(* maximum average.                                                        *)
C9_CVAverage ==
    (run = "CV" /\ Len(sequences) >= N_SPLITS /\ path # "fallback"
       /\ pc \in {"loop", "done"}) =>
        /\ Len(model_list) = n_components - MIN_N_COMPONENTS
        /\ \A k \in 1..Len(model_list) :
              model_list[k].model =
                  Model(MIN_N_COMPONENTS + k - 1,
                        cv_train_idx(Len(sequences), N_SPLITS))
        /\ (fold = 0 /\ Len(model_list) > 0) =>
              /\ Len(drawn.folds) = N_SPLITS
              /\ \A f \in 1..N_SPLITS : drawn.folds[f].out.ok
              /\ RatEq(model_list[Len(model_list)].score,
                       Rat(SumSeq([f \in 1..N_SPLITS |-> drawn.folds[f].out.val]),
                           N_SPLITS))
        /\ pc = "done" => (path = "best" /\ ReturnsHighest)

C9_Witness ==
    /\ run = "CV" /\ pc = "done" /\ path = "best"
    /\ Len(model_list) >= 2
    /\ result = model_list[2].model
    /\ RatLT(model_list[1].score, model_list[2].score)
    /\ Len(sequences) > N_SPLITS

(* C10: select() leaves self.X and self.lengths equal to the concatenation *)
(* of all training sequences of the word, so a model produced by the       *)
(* fallback fit is trained on the full data.                               *)
C10_FrameXLengths ==
    Selecting =>
        /\ pc = "done" => (X = FullX /\ lengths = sequences)
        /\ (path = "fallback" /\ result.kind = "model") => result.X = FullX

----------------------------------------------------------------------------
(* Properties of recognize, checked under SpecRecognize *)

Recognizing == run = "recognize"

KeysOf(d) == {d[i].word : i \in 1..Len(d)}

OutputShape ==
    /\ Len(probabilities) = test_set_size
    /\ Len(guesses) = test_set_size
    /\ \A k \in 1..Len(probabilities) :
          /\ Len(probabilities[k]) = Len(models)
          /\ KeysOf(probabilities[k]) = KeysOf(models)
          /\ guesses[k] \in KeysOf(models)

(* C7 as stated: for every m >= 0 and v >= 0 recognize returns m           *)
(* score-maps and m guesses, each score-map keyed by exactly the v words   *)
(* of the mapping and each guess a key of the mapping.                     *)
C7_ShapeForEveryMapping ==
    Recognizing => (pc # "raised" /\ (pc = "done" => OutputShape))

(* C7 amended: the same for v >= 1, and for m = 0; with an empty mapping   *)
(* and m >= 1 recognize raises on the first item and returns nothing.      *)
C7_OutputShape ==
    /\ (Recognizing /\ (Len(models) >= 1 \/ test_set_size = 0)) =>
          (pc # "raised" /\ (pc = "done" => OutputShape))
    /\ (Recognizing /\ Len(models) = 0 /\ test_set_size >= 1) => pc # "done"

C7_Witness ==
    /\ Recognizing /\ pc = "done"
    /\ test_set_size = MaxItems /\ Len(models) = MaxVocab
    /\ \E i \in 1..Len(models) : probabilities[1][i].score = NegInf
    /\ \E i \in 1..Len(models) : probabilities[1][i].score # NegInf

(* C8: a model whose scoring fails, a None entry included, is recorded as  *)
(* negative infinity beside the other models' scores, and the guess is the *)
(* first word, in mapping order, whose recorded score is maximal.          *)
C8_ScoresAndGuess ==
    Recognizing =>
        \A k \in 1..Len(guesses) :
            /\ \A i \in 1..Len(models) :
                  /\ probabilities[k][i].word = models[i].word
                  /\ probabilities[k][i].score =
                        IF models[i].model.kind = "model" /\ drawn[k][i].ok
                        THEN drawn[k][i].val ELSE NegInf
            /\ \E i \in 1..Len(models) :
                  /\ guesses[k] = models[i].word
                  /\ \A j \in 1..Len(models) :
                        probabilities[k][j].score <= probabilities[k][i].score
                  /\ \A j \in 1..(i - 1) :
                        probabilities[k][j].score < probabilities[k][i].score

C8_Witness ==
    /\ Recognizing /\ Len(guesses) >= 1 /\ Len(models) >= 2
    /\ models[1].word # 1
    /\ models[1].model = NoneObj
    /\ \A i \in 1..Len(models) : probabilities[1][i].score = NegInf
    /\ guesses[1] = models[1].word

====
